---------------------------- MODULE Spec2Model ----------------------------
(***************************************************************************)
(* FarmerDirect backend (backend/main.py, security.py, models.py): the     *)
(* relational store (users, listings, chat_rooms, messages), the bearer    *)
(* token service and the HTTP handlers, as a state machine.                *)
(*                                                                         *)
(* Text is a sequence of one-character strings.  A uuid4 is a positive     *)
(* number, fresh among the uuids stored or in flight; each table's rows    *)
(* are kept in insertion (rowid) order.  A handler that reads the store,   *)
(* then commits a row, is two steps (its session reads, and later its      *)
(* commit writes), so that concurrent requests interleave as the worker    *)
(* threads of the server let them.                                         *)
(***************************************************************************)
EXTENDS Integers, Sequences, FiniteSets, TLC

VARIABLES
    users,      \* table users: sequence of rows, in rowid order
    listings,   \* table listings
    rooms,      \* table chat_rooms
    messages,   \* table messages
    now,        \* the server clock, in ticks (TicksPerSecond to the second)
    pending,    \* rows of requests in flight: checks passed, commit to come
    probe       \* input and result of a pure function applied on its own

vars == <<users, listings, rooms, messages, now, pending, probe>>

-----------------------------------------------------------------------------
(* Bounds of the model *)

MaxUsers == 3
MaxListings == 1
MaxRooms == 2
MaxMsgs == 2
MaxPending == 2
MaxRows == 6
MaxTicks == 1
TicksPerSecond == 4
MaxPwLen == 8
MaxEmailLen == 6
MaxIssueTick == 5
MaxSlack == 6
MaxBoxes == 5

-----------------------------------------------------------------------------
(* Program constants *)

ACCESS_TOKEN_EXPIRE_MINUTES == 1440
MaxPasswordBytes == 72
MinPasswordLen == 8
MinImages == 3

JWT_SECRET_KEY == "test-secret-for-local"

\* The clock counts ticks, TicksPerSecond to the second.  The token's
\* lifetime in seconds and in ticks, and a step of the clock that outlasts
\* it.
LifetimeSeconds == ACCESS_TOKEN_EXPIRE_MINUTES * 60
LifetimeTicks == LifetimeSeconds * TicksPerSecond
ClockStep == LifetimeTicks + TicksPerSecond

-----------------------------------------------------------------------------
(* Text *)

UpperChars == {"A", "B"}
LowerChars == {"a", "b", "c", "f", "n", "o", "u", "x", "y"}
DigitChars == {"1", "2"}

\* str.encode('utf-8'): the bytes of a text ("EUR" stands for the euro
\* sign, three bytes; every other character of the model is one byte).
RECURSIVE Utf8Encode(_)
Utf8Encode(s) ==
    IF s = <<>> THEN <<>>
    ELSE (IF Head(s) = "EUR" THEN <<"E2", "82", "AC">> ELSE <<Head(s)>>)
             \o Utf8Encode(Tail(s))

Utf8Bytes(s) == Len(Utf8Encode(s))

Repeat(c, n) == [i \in 1..n |-> c]

SeqsUpTo(S, n) == UNION {[1..k -> S] : k \in 0..n}

\* The least positive number outside used: a fresh uuid.
FreshId(used) == CHOOSE i \in 1..(Cardinality(used) + 1) :
                     i \notin used /\ \A j \in 1..(i - 1) : j \in used

-----------------------------------------------------------------------------
(* security.py *)

\* passlib's CryptContext(schemes=["bcrypt"]): the secret is encoded in
\* UTF-8 and bcrypt reads its first 72 bytes; the digest is a function of
\* the salt and of those bytes, and the salt is kept with it.  (The
\* passwords of the model hold no NUL character, which passlib refuses.)
BcryptSecret(password) ==
    LET bytes == Utf8Encode(password)
    IN  SubSeq(bytes, 1, IF Len(bytes) < MaxPasswordBytes THEN Len(bytes) ELSE MaxPasswordBytes)

hash_password(password) ==
    [salt |-> "s1", digest |-> <<"bcrypt", "s1">> \o BcryptSecret(password)]

verify_password(plain_password, hashed_password) ==
    hashed_password.digest = <<"bcrypt", hashed_password.salt>> \o BcryptSecret(plain_password)

\* A JWT: the payload and the key it was signed with.  A payload key that
\* is absent reads as None: <<>> for sub, "" for role, 0 for id.
NoPayload == <<>>

jwt_encode(payload, key) == [payload |-> payload, sig |-> key]

\* jose writes exp as whole seconds: timegm(expire.utctimetuple()) drops
\* the fraction of the second of the clock read at tick t.
UnixSeconds(t) == t \div TicksPerSecond

create_access_token(data, t) ==
    jwt_encode([sub |-> data.sub, role |-> data.role, id |-> data.id,
                exp |-> UnixSeconds(t) + LifetimeSeconds], JWT_SECRET_KEY)

\* jose's decode at tick t: the signature must be the key's, and the
\* token is expired when exp < now, now in whole seconds.  The payload
\* comes back in a one-element sequence; <<>> is None.
verify_token_exp_ignored(token, t) ==
    IF token.sig = JWT_SECRET_KEY THEN <<token.payload>> ELSE NoPayload

verify_token_sig_ignored(token, t) ==
    IF token.payload.exp >= UnixSeconds(t) THEN <<token.payload>> ELSE NoPayload

verify_token(token, t) ==
    IF token.sig = JWT_SECRET_KEY /\ token.payload.exp >= UnixSeconds(t)
        THEN <<token.payload>>
        ELSE NoPayload

MsgLength == "Password must be at least 8 characters"
MsgClasses == "Password must include uppercase, lowercase and a digit"

validate_password_strength_no_digit(password) ==
    IF password = <<>> \/ Len(password) < MinPasswordLen
        THEN [ok |-> FALSE, msg |-> MsgLength]
        ELSE LET has_upper == \E i \in 1..Len(password) : password[i] \in UpperChars
                 has_lower == \E i \in 1..Len(password) : password[i] \in LowerChars
             IN  IF ~(has_upper /\ has_lower)
                     THEN [ok |-> FALSE, msg |-> MsgClasses]
                     ELSE [ok |-> TRUE, msg |-> "OK"]

validate_password_strength(password) ==
    IF password = <<>> \/ Len(password) < MinPasswordLen
        THEN [ok |-> FALSE, msg |-> MsgLength]
        ELSE LET has_upper == \E i \in 1..Len(password) : password[i] \in UpperChars
                 has_lower == \E i \in 1..Len(password) : password[i] \in LowerChars
                 has_digit == \E i \in 1..Len(password) : password[i] \in DigitChars
             IN  IF ~(has_upper /\ has_lower /\ has_digit)
                     THEN [ok |-> FALSE, msg |-> MsgClasses]
                     ELSE [ok |-> TRUE, msg |-> "OK"]

-----------------------------------------------------------------------------
(* main.py: the e-mail pattern of register_user *)

\* re.match(r'^[^@]+@[^@]+\.[^@]+$', email): a backtracking match of the
\* pattern's items from position si of s; "plus_not" is [^c]+, "lit" is c.
EmailPattern ==
    << [kind |-> "plus_not", ch |-> "@"], [kind |-> "lit", ch |-> "@"],
       [kind |-> "plus_not", ch |-> "@"], [kind |-> "lit", ch |-> "."],
       [kind |-> "plus_not", ch |-> "@"] >>

RECURSIVE re_match_from(_, _, _, _)
re_match_from(pat, pi, s, si) ==
    IF pi > Len(pat)
        THEN si = Len(s) + 1
        ELSE IF pat[pi].kind = "lit"
            THEN si <= Len(s) /\ s[si] = pat[pi].ch
                 /\ re_match_from(pat, pi + 1, s, si + 1)
            ELSE \E k \in 1..(Len(s) - si + 1) :
                    /\ \A j \in si..(si + k - 1) : s[j] # pat[pi].ch
                    /\ re_match_from(pat, pi + 1, s, si + k)

email_ok_no_dot(email) ==
    re_match_from(<<EmailPattern[1], EmailPattern[2], EmailPattern[3]>>, 1, email, 1)

email_ok(email) == re_match_from(EmailPattern, 1, email, 1)

-----------------------------------------------------------------------------
(* main.py: analyze_produce_with_yolo *)

\* A detection result is [ok |-> FALSE] when the detector raises or its
\* result is malformed, else the boxes' confidences, in hundredths.
Band1 == "Rs 2000 - 2400 per quintal"
Band2 == "Rs 1500 - 1900 per quintal"
Band3 == "Rs 1000 - 1400 per quintal"

RECURSIVE SumSeq(_)
SumSeq(s) == IF s = <<>> THEN 0 ELSE Head(s) + SumSeq(Tail(s))

Grading_no_price(grade, price_range, text, d, n) ==
    [grade |-> grade, price_range |-> "",
     analysis |-> [text |-> text, defective |-> d, total |-> n]]

Grading(grade, price_range, text, d, n) ==
    [grade |-> grade, price_range |-> price_range,
     analysis |-> [text |-> text, defective |-> d, total |-> n]]

\* The detector's confidences are 32-bit floats (box.conf.item()): their
\* sum, the quotients by the number of boxes and the comparisons with the
\* thresholds come out in double arithmetic as in exact arithmetic, which
\* is how the grades are computed here.
analyze_produce_with_yolo_ratio_le(det) ==
    IF ~det.ok
        THEN Grading("B", Band2, "Automatic grading encountered an issue", 0, 0)
        ELSE LET confidence_scores == det.conf
                 total_objects == Len(confidence_scores)
                 defective_count ==
                     Cardinality({i \in 1..total_objects : confidence_scores[i] < 50})
             IN  IF total_objects = 0
                     THEN Grading("A", Band1, "no visible defects", 0, 0)
                     ELSE IF 10 * defective_count <= 2 * total_objects
                             /\ SumSeq(confidence_scores) > 70 * total_objects
                         THEN Grading("A", Band1, "Premium quality", defective_count, total_objects)
                     ELSE IF 10 * defective_count < 5 * total_objects
                             /\ SumSeq(confidence_scores) > 50 * total_objects
                         THEN Grading("B", Band2, "Good quality", defective_count, total_objects)
                     ELSE Grading("C", Band3, "Fair quality", defective_count, total_objects)

analyze_produce_with_yolo(det) ==
    IF ~det.ok
        THEN Grading("B", Band2, "Automatic grading encountered an issue", 0, 0)
        ELSE LET confidence_scores == det.conf
                 total_objects == Len(confidence_scores)
                 defective_count ==
                     Cardinality({i \in 1..total_objects : confidence_scores[i] < 50})
             IN  IF total_objects = 0
                     THEN Grading("A", Band1, "no visible defects", 0, 0)
                     \* defect_ratio < 0.2 and avg_confidence > 0.7
                     ELSE IF 10 * defective_count < 2 * total_objects
                             /\ SumSeq(confidence_scores) > 70 * total_objects
                         THEN Grading("A", Band1, "Premium quality", defective_count, total_objects)
                     \* defect_ratio < 0.5 and avg_confidence > 0.5
                     ELSE IF 10 * defective_count < 5 * total_objects
                             /\ SumSeq(confidence_scores) > 50 * total_objects
                         THEN Grading("B", Band2, "Good quality", defective_count, total_objects)
                     ELSE Grading("C", Band3, "Fair quality", defective_count, total_objects)

-----------------------------------------------------------------------------
(* main.py: the lookups *)

\* query.filter(...).first(): the matching row of least rowid, in a
\* one-element sequence, or <<>> for None.
First(hits) == IF hits = <<>> THEN <<>> ELSE <<Head(hits)>>

find_user_in_db(email) == LET M(u) == u.email = email IN First(SelectSeq(users, M))

find_listing_in_db_any(listing_uuid) == First(listings)

find_listing_in_db(listing_uuid) ==
    LET M(l) == l.uuid = listing_uuid IN First(SelectSeq(listings, M))

find_chat_room_in_db(chat_uuid) == LET M(r) == r.uuid = chat_uuid IN First(SelectSeq(rooms, M))

check_chat_participation_truthy(chat_room, user_email) ==
    user_email = chat_room.farmer_email \/ chat_room.buyer_email # <<>>

check_chat_participation(chat_room, user_email) ==
    user_email = chat_room.farmer_email \/ user_email = chat_room.buyer_email

\* ORDER BY timestamp ASC over the rows in rowid order: rows of equal
\* timestamp keep their rowid order.
RECURSIVE InsertByTimestamp(_, _)
InsertByTimestamp(sorted, m) ==
    IF sorted = <<>> THEN <<m>>
    ELSE IF Head(sorted).timestamp <= m.timestamp
        THEN <<Head(sorted)>> \o InsertByTimestamp(Tail(sorted), m)
        ELSE <<m>> \o sorted

OrderByRowid(rows) == rows

RECURSIVE OrderByTimestamp(_)
OrderByTimestamp(rows) ==
    IF rows = <<>> THEN <<>>
    ELSE InsertByTimestamp(OrderByTimestamp(SubSeq(rows, 1, Len(rows) - 1)), rows[Len(rows)])

-----------------------------------------------------------------------------
(* main.py: get_current_user *)

NoUser == [email |-> <<>>, role |-> "", id |-> 0]

\* auth is the Authorization header: <<>> when the request carries none,
\* else <<token>>.  The result is the status and the identity.
get_current_user_no_field_check(auth, t) ==
    IF auth = <<>>
        THEN [status |-> 401, detail |-> "Not authenticated", user |-> NoUser]
        ELSE LET payload == verify_token(auth[1], t) IN
             IF payload = NoPayload
                 THEN [status |-> 401, detail |-> "Invalid token", user |-> NoUser]
                 ELSE [status |-> 200, detail |-> "",
                       user |-> [email |-> payload[1].sub, role |-> payload[1].role,
                                 id |-> payload[1].id]]

get_current_user(auth, t) ==
    IF auth = <<>>
        THEN [status |-> 401, detail |-> "Not authenticated", user |-> NoUser]
        ELSE LET payload == verify_token(auth[1], t) IN
             IF payload = NoPayload
                 THEN [status |-> 401, detail |-> "Invalid token", user |-> NoUser]
                 ELSE LET user_data == [email |-> payload[1].sub, role |-> payload[1].role,
                                        id |-> payload[1].id]
                      IN  IF user_data.email = <<>> \/ user_data.role = "" \/ user_data.id = 0
                              THEN [status |-> 401, detail |-> "Invalid token payload",
                                    user |-> NoUser]
                              ELSE [status |-> 200, detail |-> "", user |-> user_data]

-----------------------------------------------------------------------------
(* The requests the clients send *)

E1 == <<"f", "@", "x", ".", "y">>
E2 == <<"b", "@", "x", ".", "y">>
E3 == <<"c", "@", "x", ".", "y">>
BadEmails == { <<"n", "o">>, <<"@", "x", ".", "y">>, <<"u", "@", "@", "x", ".", "y">>,
               <<"u", "@", "x">> }

P1 == <<"A", "a", "1", "a", "a", "a", "a", "a">>
P2 == <<"B", "b", "2", "b", "b", "b", "b", "b">>
PShort == <<"A", "a", "1">>
PNoUpper == <<"a", "1", "a", "a", "a", "a", "a", "a">>
WeakPasswords == { <<>>, PShort, PNoUpper }
\* Exactly 72 bytes, and the same with one more character.
P72 == <<"A", "1">> \o Repeat("a", MaxPasswordBytes - 2)
P72x == P72 \o <<"x">>
\* More than 72 bytes: strong, weak, and 27 characters of 75 bytes.
PLong == <<"A", "1">> \o Repeat("a", MaxPasswordBytes - 1)
PLongWeak == Repeat("a", MaxPasswordBytes + 1)
PEuro == <<"A", "a", "1">> \o Repeat("EUR", MaxPasswordBytes \div 3)
LongPasswords == { PLong, PLongWeak, PEuro }

Roles == {"farmer", "buyer", "admin"}

UserCreate(fullName, email, password, role) ==
    [fullName |-> fullName, email |-> email, password |-> password, role |-> role]

\* Ann, Bob and Cat register; Dan sends what register must refuse; Eve
\* asks for an email that is taken, with other values in the other fields.
RegisterRequests ==
    { UserCreate("Ann", E1, P1, "farmer"), UserCreate("Bob", E2, P2, "buyer") }
    \cup { UserCreate("Cat", E3, P72, r) : r \in Roles }
    \cup { UserCreate("Dan", E2, p, "farmer") : p \in WeakPasswords \cup LongPasswords }
    \cup { UserCreate("Dan", e, P1, "farmer") : e \in BadEmails }
    \cup { UserCreate("Dan", <<"u", "@", "x">>, p, "farmer") : p \in {PShort, PLongWeak} }
    \cup { UserCreate("Eve", users[i].email, P2, "admin") : i \in 1..Len(users) }

LoginRequests ==
    { [email |-> e, password |-> p] : e \in {E1, E2, E3}, p \in {P1, P2, PShort, P72, P72x} }

\* The instants the clock takes.
Instants == { k * ClockStep : k \in 0..MaxTicks }

Identity_as_farmer(u) == [sub |-> u.email, role |-> "farmer", id |-> u.uuid]

Identity(u) == [sub |-> u.email, role |-> u.role, id |-> u.uuid]

\* The tokens login can have issued to the stored users by now: a user's
\* row never changes, so each carries the row's email, role and uuid, and
\* the expiry of its instant of issue.  (A token dated before its user's
\* registration is answered as any expired or valid token of that user.)
LoginTokens ==
    { create_access_token(Identity(users[i]), t) :
          i \in 1..Len(users), t \in {s \in Instants : s <= now} }

\* Tokens no login issued: signed by create_access_token with a key of
\* the payload left out (as the repository's test does), and one signed
\* with another key.
CraftedTokens ==
    { create_access_token([sub |-> E1, role |-> "farmer", id |-> 0], now),
      create_access_token([sub |-> <<>>, role |-> "farmer", id |-> 1], now),
      create_access_token([sub |-> E1, role |-> "", id |-> 1], now),
      jwt_encode([sub |-> E1, role |-> "farmer", id |-> 1,
                  exp |-> UnixSeconds(now) + LifetimeSeconds], "another-key") }

\* The Authorization header of a request: none, or a token.
AuthHeaders == {<<>>} \cup { <<tok>> : tok \in LoginTokens \cup CraftedTokens }

\* What the detector answers: it raises, or the boxes' confidences.
Detections == { [ok |-> FALSE, conf |-> <<>>], [ok |-> TRUE, conf |-> <<10>>] }
NoBoxes == [ok |-> TRUE, conf |-> <<>>]

\* n_images is len(image_urls); fetch is whether requests.get of the first
\* image and Image.open succeed; det is what the detector answers.
ListingCreate(quantity, n_images, fetch, det) ==
    [title |-> "T1", quantity |-> quantity, n_images |-> n_images,
     fetch |-> fetch, det |-> det]

ListingRequests ==
    { ListingCreate(5, MinImages, TRUE, d) : d \in Detections }
    \cup { ListingCreate(0, MinImages, TRUE, NoBoxes),
           ListingCreate(5, MinImages - 1, TRUE, NoBoxes),
           ListingCreate(5, MinImages, FALSE, NoBoxes),
           ListingCreate(5, MinImages - 1, FALSE, NoBoxes) }

Texts == {"hi"}

Uuids(table) == { table[i].uuid : i \in 1..Len(table) }
PendingUuids(S) == { row.uuid : row \in S }

\* The uuids a client may name: every stored one and one that is not.
Refs(table) == Uuids(table) \cup { FreshId(Uuids(table)) }

InFlight == Cardinality(pending.users) + Cardinality(pending.rooms)
                + Cardinality(pending.msgs)

RowsUsed == Len(users) + Len(listings) + Len(rooms) + Len(messages) + InFlight

-----------------------------------------------------------------------------
(* The state after start-up: empty tables, no request in flight *)

NoProbe == [fn |-> "none", arg |-> <<>>, done |-> FALSE, res |-> <<>>]

\* A response: the HTTP status, the detail of an error, the body's rows.
\* Status 0 is no response yet: the request goes on to its commit.
Response(status, detail, out) == [status |-> status, detail |-> detail, out |-> out]

EmptyStore ==
    /\ users = <<>>
    /\ listings = <<>>
    /\ rooms = <<>>
    /\ messages = <<>>
    /\ now = 0
    /\ pending = [users |-> {}, rooms |-> {}, msgs |-> {}]

Init == EmptyStore /\ probe = NoProbe

-----------------------------------------------------------------------------
(* main.py: /api/v1/test, register and login *)

get_test_message_response == Response(200, "healthy", <<>>)

get_test_message ==
    /\ get_test_message_response.status = 200
    /\ UNCHANGED vars

register_user_validates_first(user_data) ==
    IF Utf8Bytes(user_data.password) > MaxPasswordBytes
        THEN Response(422, "Password is too long (max 72 characters).", <<>>)
    ELSE IF ~email_ok(user_data.email)
        THEN Response(422, "Invalid email format", <<>>)
    ELSE IF ~validate_password_strength(user_data.password).ok
        THEN Response(400, validate_password_strength(user_data.password).msg, <<>>)
    ELSE IF find_user_in_db(user_data.email) # <<>>
        THEN Response(409, "Email already registered", <<>>)
    ELSE Response(0, "",
            << [uuid |-> FreshId(Uuids(users) \cup PendingUuids(pending.users)),
                full_name |-> user_data.fullName,
                email |-> user_data.email,
                password_hash |-> hash_password(user_data.password),
                role |-> user_data.role] >>)

\* register_user up to db.add: a refusal, or the row it builds.
register_user_response(user_data) ==
    IF find_user_in_db(user_data.email) # <<>>
        THEN Response(409, "Email already registered", <<>>)
    ELSE IF Utf8Bytes(user_data.password) > MaxPasswordBytes
        THEN Response(422, "Password is too long (max 72 characters).", <<>>)
    ELSE IF ~email_ok(user_data.email)
        THEN Response(422, "Invalid email format", <<>>)
    ELSE IF ~validate_password_strength(user_data.password).ok
        THEN Response(400, validate_password_strength(user_data.password).msg, <<>>)
    ELSE Response(0, "",
            << [uuid |-> FreshId(Uuids(users) \cup PendingUuids(pending.users)),
                full_name |-> user_data.fullName,
                email |-> user_data.email,
                password_hash |-> hash_password(user_data.password),
                role |-> user_data.role] >>)

register_user(user_data) ==
    LET r == register_user_response(user_data) IN
    IF r.status # 0
        THEN UNCHANGED vars
        ELSE /\ InFlight < MaxPending
             /\ RowsUsed < MaxRows
             /\ Len(users) + Cardinality(pending.users) < MaxUsers
             /\ pending' = [pending EXCEPT !.users = @ \cup {r.out[1]}]
             /\ UNCHANGED <<users, listings, rooms, messages, now, probe>>

register_commit_response_no_unique_index(new_db_user) ==
    Response(201, "User registered successfully",
             <<[email |-> new_db_user.email, user_id |-> new_db_user.uuid]>>)

\* db.add, db.commit of register_user: the unique indexes on users.email and
\* users.uuid refuse the row, and the handler rolls back and answers 500.
register_commit_response(new_db_user) ==
    IF \E i \in 1..Len(users) :
            users[i].email = new_db_user.email \/ users[i].uuid = new_db_user.uuid
        THEN Response(500, "Could not write to database", <<>>)
        ELSE Response(201, "User registered successfully",
                      <<[email |-> new_db_user.email, user_id |-> new_db_user.uuid]>>)

register_commit_no_rollback(new_db_user) ==
    /\ new_db_user \in pending.users
    /\ pending' = [pending EXCEPT !.users = @ \ {new_db_user}]
    /\ users' = Append(users, new_db_user)
    /\ UNCHANGED <<listings, rooms, messages, now, probe>>

register_commit(new_db_user) ==
    /\ new_db_user \in pending.users
    /\ pending' = [pending EXCEPT !.users = @ \ {new_db_user}]
    /\ users' = IF register_commit_response(new_db_user).status = 201
                    THEN Append(users, new_db_user)
                    ELSE users
    /\ UNCHANGED <<listings, rooms, messages, now, probe>>

login_for_access_token_response(form_data) ==
    LET user == find_user_in_db(form_data.email) IN
    IF user = <<>> \/ ~verify_password(form_data.password, user[1].password_hash)
        THEN Response(401, "Incorrect email or password", <<>>)
        ELSE Response(200, "",
                << create_access_token([sub |-> user[1].email, role |-> user[1].role,
                                        id |-> user[1].uuid], now) >>)

\* login writes nothing: the token leaves with the response.
login_for_access_token(form_data) ==
    /\ login_for_access_token_response(form_data).status \in {200, 401}
    /\ UNCHANGED vars

Tick ==
    /\ now + ClockStep <= MaxTicks * ClockStep
    /\ now' = now + ClockStep
    /\ UNCHANGED <<users, listings, rooms, messages, pending, probe>>

-----------------------------------------------------------------------------
(* main.py: the endpoints behind Depends(get_current_user) *)

\* What such an endpoint answers when get_current_user raises: the
\* handler's body never runs.
Unauthorized(cu) == Response(cu.status, cu.detail, <<>>)

request_cloudinary_signature_response(auth, configured) ==
    LET cu == get_current_user(auth, now) IN
    IF cu.status # 200 THEN Unauthorized(cu)
    ELSE IF ~configured THEN Response(503, "Cloudinary not configured", <<>>)
    ELSE Response(200, "", <<>>)

request_cloudinary_signature(auth, configured) ==
    /\ request_cloudinary_signature_response(auth, configured).status \in {200, 401, 503}
    /\ UNCHANGED vars

ask_ai_assistant_response(auth, query) ==
    LET cu == get_current_user(auth, now) IN
    IF cu.status # 200 THEN Unauthorized(cu)
    ELSE IF cu.user.role # "farmer"
        THEN Response(403, "Only farmers can use the AI Assistant.", <<>>)
    ELSE IF query = <<>> THEN Response(400, "Query cannot be empty", <<>>)
    ELSE Response(503, "AI Assistant is currently unavailable.", <<>>)

ask_ai_assistant(auth, query) ==
    /\ ask_ai_assistant_response(auth, query).status \in {400, 401, 403, 503}
    /\ UNCHANGED vars

create_listing_response_grading_raises(auth, listing_data) ==
    LET cu == get_current_user(auth, now) IN
    IF cu.status # 200 THEN Unauthorized(cu)
    ELSE IF cu.user.role # "farmer"
        THEN Response(403, "Only farmers can create listings.", <<>>)
    ELSE IF listing_data.n_images < MinImages
        THEN Response(422, "Please upload at least 3 images.", <<>>)
    ELSE IF ~listing_data.fetch \/ ~listing_data.det.ok
        THEN Response(503, "The AI grading service failed.", <<>>)
    ELSE LET ai_grading == analyze_produce_with_yolo(listing_data.det) IN
         Response(200, "",
            << [uuid |-> FreshId(Uuids(listings)),
                owner_email |-> cu.user.email,
                title |-> listing_data.title,
                quantity |-> listing_data.quantity,
                n_images |-> listing_data.n_images,
                ai_grade |-> ai_grading.grade,
                ai_price_range |-> ai_grading.price_range,
                ai_analysis |-> ai_grading.analysis,
                status |-> "active"] >>)

create_listing_response_images_first(auth, listing_data) ==
    LET cu == get_current_user(auth, now) IN
    IF cu.status # 200 THEN Unauthorized(cu)
    ELSE IF listing_data.n_images < MinImages
        THEN Response(422, "Please upload at least 3 images.", <<>>)
    ELSE IF cu.user.role # "farmer"
        THEN Response(403, "Only farmers can create listings.", <<>>)
    ELSE IF ~listing_data.fetch
        THEN Response(503, "The AI grading service failed.", <<>>)
    ELSE LET ai_grading == analyze_produce_with_yolo(listing_data.det) IN
         Response(200, "",
            << [uuid |-> FreshId(Uuids(listings)),
                owner_email |-> cu.user.email,
                title |-> listing_data.title,
                quantity |-> listing_data.quantity,
                n_images |-> listing_data.n_images,
                ai_grade |-> ai_grading.grade,
                ai_price_range |-> ai_grading.price_range,
                ai_analysis |-> ai_grading.analysis,
                status |-> "active"] >>)

create_listing_response(auth, listing_data) ==
    LET cu == get_current_user(auth, now) IN
    IF cu.status # 200 THEN Unauthorized(cu)
    ELSE IF cu.user.role # "farmer"
        THEN Response(403, "Only farmers can create listings.", <<>>)
    ELSE IF listing_data.n_images < MinImages
        THEN Response(422, "Please upload at least 3 images.", <<>>)
    ELSE IF ~listing_data.fetch
        THEN Response(503, "The AI grading service failed.", <<>>)
    ELSE LET ai_grading == analyze_produce_with_yolo(listing_data.det) IN
         Response(200, "",
            << [uuid |-> FreshId(Uuids(listings)),
                owner_email |-> cu.user.email,
                title |-> listing_data.title,
                quantity |-> listing_data.quantity,
                n_images |-> listing_data.n_images,
                ai_grade |-> ai_grading.grade,
                ai_price_range |-> ai_grading.price_range,
                ai_analysis |-> ai_grading.analysis,
                status |-> "active"] >>)

create_listing(auth, listing_data) ==
    LET r == create_listing_response(auth, listing_data) IN
    IF r.status # 200
        THEN UNCHANGED vars
        ELSE /\ RowsUsed < MaxRows
             /\ Len(listings) < MaxListings
             /\ listings' = Append(listings, r.out[1])
             /\ UNCHANGED <<users, rooms, messages, now, pending, probe>>

get_all_listings_response(auth) ==
    LET cu == get_current_user(auth, now)
        active(l) == l.status = "active"
    IN  IF cu.status # 200 THEN Unauthorized(cu)
        ELSE Response(200, "", SelectSeq(listings, active))

get_all_listings(auth) ==
    /\ get_all_listings_response(auth).status \in {200, 401}
    /\ UNCHANGED vars

initiate_chat_response_serialized(auth, listing_id) ==
    LET cu == get_current_user(auth, now)
        listing == find_listing_in_db(listing_id)
        buyer_email == cu.user.email
        same(r) == r.listing_id = listing_id /\ r.buyer_email = buyer_email
        existing_room == First(SelectSeq(rooms, same))
        queued == { r \in pending.rooms : same(r) }
    IN
    IF cu.status # 200 THEN Unauthorized(cu)
    ELSE IF cu.user.role # "buyer"
        THEN Response(403, "Only buyers can initiate chats.", <<>>)
    ELSE IF listing = <<>>
        THEN Response(404, "Listing not found.", <<>>)
    ELSE IF listing[1].owner_email = buyer_email
        THEN Response(400, "You cannot start a chat on your own listing.", <<>>)
    ELSE IF existing_room # <<>>
        THEN Response(200, "", existing_room)
    ELSE IF queued # {}
        THEN Response(200, "", <<CHOOSE r \in queued : TRUE>>)
    ELSE Response(0, "",
            << [uuid |-> FreshId(Uuids(rooms) \cup PendingUuids(pending.rooms)),
                listing_id |-> listing_id,
                listing_title |-> listing[1].title,
                farmer_email |-> listing[1].owner_email,
                buyer_email |-> buyer_email] >>)

initiate_chat_response_lookup_first(auth, listing_id) ==
    LET cu == get_current_user(auth, now)
        listing == find_listing_in_db(listing_id)
        buyer_email == cu.user.email
        same(r) == r.listing_id = listing_id /\ r.buyer_email = buyer_email
        existing_room == First(SelectSeq(rooms, same))
    IN
    IF cu.status # 200 THEN Unauthorized(cu)
    ELSE IF listing = <<>>
        THEN Response(404, "Listing not found.", <<>>)
    ELSE IF cu.user.role # "buyer"
        THEN Response(403, "Only buyers can initiate chats.", <<>>)
    ELSE IF listing[1].owner_email = buyer_email
        THEN Response(400, "You cannot start a chat on your own listing.", <<>>)
    ELSE IF existing_room # <<>>
        THEN Response(200, "", existing_room)
    ELSE Response(0, "",
            << [uuid |-> FreshId(Uuids(rooms) \cup PendingUuids(pending.rooms)),
                listing_id |-> listing_id,
                listing_title |-> listing[1].title,
                farmer_email |-> listing[1].owner_email,
                buyer_email |-> buyer_email] >>)

\* initiate_chat up to db.add: a refusal, the existing room, or (status 0)
\* the row it builds.
initiate_chat_response(auth, listing_id) ==
    LET cu == get_current_user(auth, now)
        listing == find_listing_in_db(listing_id)
        buyer_email == cu.user.email
        same(r) == r.listing_id = listing_id /\ r.buyer_email = buyer_email
        existing_room == First(SelectSeq(rooms, same))
    IN
    IF cu.status # 200 THEN Unauthorized(cu)
    ELSE IF cu.user.role # "buyer"
        THEN Response(403, "Only buyers can initiate chats.", <<>>)
    ELSE IF listing = <<>>
        THEN Response(404, "Listing not found.", <<>>)
    ELSE IF listing[1].owner_email = buyer_email
        THEN Response(400, "You cannot start a chat on your own listing.", <<>>)
    ELSE IF existing_room # <<>>
        THEN Response(200, "", existing_room)
    ELSE Response(0, "",
            << [uuid |-> FreshId(Uuids(rooms) \cup PendingUuids(pending.rooms)),
                listing_id |-> listing_id,
                listing_title |-> listing[1].title,
                farmer_email |-> listing[1].owner_email,
                buyer_email |-> buyer_email] >>)

initiate_chat(auth, listing_id) ==
    LET r == initiate_chat_response(auth, listing_id) IN
    IF r.status # 0
        THEN UNCHANGED vars
        ELSE /\ InFlight < MaxPending
             /\ RowsUsed < MaxRows
             /\ Len(rooms) + Cardinality(pending.rooms) < MaxRooms
             /\ pending' = [pending EXCEPT !.rooms = @ \cup {r.out[1]}]
             /\ UNCHANGED <<users, listings, rooms, messages, now, probe>>

\* db.add, db.commit of initiate_chat: no index refuses a second room of
\* the same listing and buyer (chat_rooms.uuid alone is unique).
initiate_commit_response(new_room) == Response(200, "", <<new_room>>)

initiate_commit(new_room) ==
    /\ new_room \in pending.rooms
    /\ pending' = [pending EXCEPT !.rooms = @ \ {new_room}]
    /\ rooms' = Append(rooms, initiate_commit_response(new_room).out[1])
    /\ UNCHANGED <<users, listings, messages, now, probe>>

get_user_conversations_response_buyer_only(auth) ==
    LET cu == get_current_user(auth, now)
        mine(r) == r.buyer_email = cu.user.email
    IN  IF cu.status # 200 THEN Unauthorized(cu)
        ELSE Response(200, "", SelectSeq(rooms, mine))

get_user_conversations_response(auth) ==
    LET cu == get_current_user(auth, now)
        mine(r) == r.farmer_email = cu.user.email \/ r.buyer_email = cu.user.email
    IN  IF cu.status # 200 THEN Unauthorized(cu)
        ELSE Response(200, "", SelectSeq(rooms, mine))

get_user_conversations(auth) ==
    /\ get_user_conversations_response(auth).status \in {200, 401}
    /\ UNCHANGED vars

get_chat_messages_response(auth, chat_id) ==
    LET cu == get_current_user(auth, now)
        chat_room == find_chat_room_in_db(chat_id)
        ofRoom(m) == m.chat_room_uuid = chat_id
    IN
    IF cu.status # 200 THEN Unauthorized(cu)
    ELSE IF chat_room = <<>>
        THEN Response(404, "Chat room not found.", <<>>)
    ELSE IF ~check_chat_participation(chat_room[1], cu.user.email)
        THEN Response(403, "You are not authorized to view this chat.", <<>>)
    ELSE Response(200, "", OrderByTimestamp(SelectSeq(messages, ofRoom)))

get_chat_messages(auth, chat_id) ==
    /\ get_chat_messages_response(auth, chat_id).status \in {200, 401, 403, 404}
    /\ UNCHANGED vars

send_chat_message_response_as_farmer(auth, chat_id, message_text) ==
    LET cu == get_current_user(auth, now)
        chat_room == find_chat_room_in_db(chat_id)
    IN
    IF cu.status # 200 THEN Unauthorized(cu)
    ELSE IF chat_room = <<>>
        THEN Response(404, "Chat room not found.", <<>>)
    ELSE IF ~check_chat_participation(chat_room[1], cu.user.email)
        THEN Response(403, "You are not authorized to send messages to this chat.", <<>>)
    ELSE Response(0, "",
            << [uuid |-> FreshId(Uuids(messages) \cup PendingUuids(pending.msgs)),
                chat_room_uuid |-> chat_id,
                sender_email |-> chat_room[1].farmer_email,
                message_text |-> message_text,
                timestamp |-> now] >>)

\* send_chat_message up to db.add, the clock read included: a refusal, or
\* (status 0) the row it builds.
send_chat_message_response(auth, chat_id, message_text) ==
    LET cu == get_current_user(auth, now)
        chat_room == find_chat_room_in_db(chat_id)
    IN
    IF cu.status # 200 THEN Unauthorized(cu)
    ELSE IF chat_room = <<>>
        THEN Response(404, "Chat room not found.", <<>>)
    ELSE IF ~check_chat_participation(chat_room[1], cu.user.email)
        THEN Response(403, "You are not authorized to send messages to this chat.", <<>>)
    ELSE Response(0, "",
            << [uuid |-> FreshId(Uuids(messages) \cup PendingUuids(pending.msgs)),
                chat_room_uuid |-> chat_id,
                sender_email |-> cu.user.email,
                message_text |-> message_text,
                timestamp |-> now] >>)

send_chat_message(auth, chat_id, message_text) ==
    LET r == send_chat_message_response(auth, chat_id, message_text) IN
    IF r.status # 0
        THEN UNCHANGED vars
        ELSE /\ InFlight < MaxPending
             /\ RowsUsed < MaxRows
             /\ Len(messages) + Cardinality(pending.msgs) < MaxMsgs
             /\ pending' = [pending EXCEPT !.msgs = @ \cup {r.out[1]}]
             /\ UNCHANGED <<users, listings, rooms, messages, now, probe>>

send_commit_response(new_msg) == Response(200, "", <<new_msg>>)

send_commit_prepends(new_msg) ==
    /\ new_msg \in pending.msgs
    /\ pending' = [pending EXCEPT !.msgs = @ \ {new_msg}]
    /\ messages' = <<send_commit_response(new_msg).out[1]>> \o messages
    /\ UNCHANGED <<users, listings, rooms, now, probe>>

send_commit(new_msg) ==
    /\ new_msg \in pending.msgs
    /\ pending' = [pending EXCEPT !.msgs = @ \ {new_msg}]
    /\ messages' = Append(messages, send_commit_response(new_msg).out[1])
    /\ UNCHANGED <<users, listings, rooms, now, probe>>

-----------------------------------------------------------------------------
(* The server: any client sends any request, the clock advances *)

Register == \E user_data \in RegisterRequests : register_user(user_data)
RegisterCommit == \E row \in pending.users : register_commit(row)
Login == \E form_data \in LoginRequests : login_for_access_token(form_data)
HealthCheck == get_test_message
RequestSignature ==
    \E auth \in AuthHeaders, configured \in BOOLEAN :
        request_cloudinary_signature(auth, configured)
AskAssistant == \E auth \in AuthHeaders, query \in {<<>>, <<"h">>} : ask_ai_assistant(auth, query)
CreateListing ==
    \E auth \in AuthHeaders, listing_data \in ListingRequests : create_listing(auth, listing_data)
ListListings == \E auth \in AuthHeaders : get_all_listings(auth)
InitiateChat ==
    \E auth \in AuthHeaders, listing_id \in Refs(listings) : initiate_chat(auth, listing_id)
InitiateCommit == \E row \in pending.rooms : initiate_commit(row)
ListConversations == \E auth \in AuthHeaders : get_user_conversations(auth)
ListMessages ==
    \E auth \in AuthHeaders, chat_id \in Refs(rooms) : get_chat_messages(auth, chat_id)
SendMessage ==
    \E auth \in AuthHeaders, chat_id \in Refs(rooms), message_text \in Texts :
        send_chat_message(auth, chat_id, message_text)
SendCommit == \E row \in pending.msgs : send_commit(row)

Next ==
    \/ Register
    \/ RegisterCommit
    \/ Login
    \/ HealthCheck
    \/ RequestSignature
    \/ AskAssistant
    \/ CreateListing
    \/ ListListings
    \/ InitiateChat
    \/ InitiateCommit
    \/ ListConversations
    \/ ListMessages
    \/ SendMessage
    \/ SendCommit
    \/ Tick

Spec == Init /\ [][Next]_vars

-----------------------------------------------------------------------------
(* security.py on its own: a token issued and then verified, a password   *)
(* judged                                                                 *)

ProbeIdentities ==
    { [sub |-> E1, role |-> "farmer", id |-> 1], [sub |-> E2, role |-> "buyer", id |-> 2],
      [sub |-> E3, role |-> "admin", id |-> 3] }

\* The ticks at which a token issued at tick t is verified: at once, and
\* around the end of its lifetime.
VerifyTicks(t) ==
    {t, t + 1} \cup { t + LifetimeTicks + k : k \in (0 - MaxSlack)..MaxSlack }

TokenProbes ==
    UNION { { [fn |-> "verify_token", arg |-> [data |-> d, t |-> t, at |-> a],
               done |-> FALSE, res |-> <<>>] : d \in ProbeIdentities, a \in VerifyTicks(t) }
            : t \in 0..MaxIssueTick }

InitTok == EmptyStore /\ probe \in TokenProbes

\* verify_token, at tick at, of the token create_access_token made at tick t.
VerifyIssued ==
    /\ probe.fn = "verify_token"
    /\ ~probe.done
    /\ probe' = [probe EXCEPT
                    !.done = TRUE,
                    !.res = verify_token(create_access_token(probe.arg.data, probe.arg.t),
                                         probe.arg.at)]
    /\ UNCHANGED <<users, listings, rooms, messages, now, pending>>

NextTok == VerifyIssued

SpecTok == InitTok /\ [][NextTok]_vars

\* Passwords over an uppercase letter, a lowercase letter, a digit and a
\* character of no class.
PwAlphabet == {"A", "a", "1", "#"}

PasswordProbes ==
    { [fn |-> "validate_password_strength", arg |-> p, done |-> FALSE, res |-> <<>>] :
          p \in SeqsUpTo(PwAlphabet, MaxPwLen) }

InitPw == EmptyStore /\ probe \in PasswordProbes

JudgePassword ==
    /\ probe.fn = "validate_password_strength"
    /\ ~probe.done
    /\ probe' = [probe EXCEPT !.done = TRUE, !.res = validate_password_strength(probe.arg)]
    /\ UNCHANGED <<users, listings, rooms, messages, now, pending>>

NextPw == JudgePassword

SpecPw == InitPw /\ [][NextPw]_vars

\* The confidences of the boxes, in hundredths, around the thresholds
\* 0.5 and 0.7.
Confidences == {10, 30, 49, 50, 51, 70, 90, 100}

\* What the detector answers: it raises, or up to MaxBoxes boxes.
GradeProbes ==
    { [fn |-> "analyze_produce_with_yolo", arg |-> det, done |-> FALSE, res |-> <<>>] :
          det \in { [ok |-> FALSE, conf |-> <<>>] }
                  \cup { [ok |-> TRUE, conf |-> c] : c \in SeqsUpTo(Confidences, MaxBoxes) } }

InitGrade == EmptyStore /\ probe \in GradeProbes

GradeProduce ==
    /\ probe.fn = "analyze_produce_with_yolo"
    /\ ~probe.done
    /\ probe' = [probe EXCEPT !.done = TRUE, !.res = analyze_produce_with_yolo(probe.arg)]
    /\ UNCHANGED <<users, listings, rooms, messages, now, pending>>

NextGrade == GradeProduce

SpecGrade == InitGrade /\ [][NextGrade]_vars

-----------------------------------------------------------------------------
(* The properties *)

store == <<users, listings, rooms, messages, pending>>

\* The header a stored user's fresh login yields.
TokenOf(email) == <<create_access_token(Identity(find_user_in_db(email)[1]), now)>>

NonParticipant(auth, room) ==
    LET cu == get_current_user(auth, now) IN
    /\ cu.status = 200
    /\ cu.user.email # room.farmer_email
    /\ cu.user.email # room.buyer_email

C1_Refused ==
    \A auth \in AuthHeaders : \A i \in 1..Len(rooms) :
        NonParticipant(auth, rooms[i]) =>
            /\ get_chat_messages_response(auth, rooms[i].uuid).status = 403
            /\ get_chat_messages_response(auth, rooms[i].uuid).out = <<>>
            /\ \A text \in Texts :
                /\ send_chat_message_response(auth, rooms[i].uuid, text).status = 403
                /\ send_chat_message_response(auth, rooms[i].uuid, text).out = <<>>

C1_NothingStored ==
    (messages' # messages \/ pending' # pending) =>
        \A auth \in AuthHeaders : \A i \in 1..Len(rooms) : \A text \in Texts :
            NonParticipant(auth, rooms[i]) => ~send_chat_message(auth, rooms[i].uuid, text)

\* C1: for every stored chat room and every authenticated caller whose
\* email is neither the room's farmer_email nor its buyer_email, whatever
\* the caller's role, get_chat_messages and send_chat_message answer 403:
\* no message of the room is returned, and no message is stored.
C1_NonParticipantForbidden == []C1_Refused /\ [][C1_NothingStored]_vars

\* A room that holds a message, and a stored buyer who is not the room's.
C1_Witness ==
    \E i \in 1..Len(rooms) :
        /\ \E k \in 1..Len(messages) : messages[k].chat_room_uuid = rooms[i].uuid
        /\ \E auth \in AuthHeaders :
            /\ NonParticipant(auth, rooms[i])
            /\ get_current_user(auth, now).user.role = "buyer"
            /\ get_chat_messages_response(auth, rooms[i].uuid).status = 403
            /\ send_chat_message_response(auth, rooms[i].uuid, "hi").status = 403

\* C2: in every reachable state there is at most one chat room for a
\* (listing id, buyer email) pair, whatever sequence or interleaving of
\* initiate-chat requests produced the state.
C2_OneRoomPerListingAndBuyer ==
    \A i, j \in 1..Len(rooms) :
        (rooms[i].listing_id = rooms[j].listing_id
            /\ rooms[i].buyer_email = rooms[j].buyer_email) => i = j

\* C3: two initiate calls made one after the other for the same listing
\* and buyer return the same room (identifier, listing id, title, farmer
\* and buyer), and the second creates no room: when a call ends by
\* committing its room, a call that follows it answers 200 with that room
\* and goes on to no commit.
C3_SecondInitiateSameRoom ==
    [][\A row \in pending.rooms :
            initiate_commit(row) =>
                LET again == (initiate_chat_response(TokenOf(row.buyer_email),
                                                     row.listing_id))'
                IN  again.status = 200 /\ again.out = <<row>>]_vars

\* What fails verification at the clock's reading: no header, a signature
\* of another key, an expiry that lies before now.
FailsVerification(auth) ==
    \/ auth = <<>>
    \/ auth[1].sig # JWT_SECRET_KEY
    \/ auth[1].payload.exp < UnixSeconds(now)

\* Every endpoint behind get_current_user answers 401, whatever the rest
\* of the request.
AllUnauthorized(auth) ==
    /\ \A configured \in BOOLEAN :
        request_cloudinary_signature_response(auth, configured).status = 401
    /\ \A query \in {<<>>, <<"h">>} : ask_ai_assistant_response(auth, query).status = 401
    /\ \A listing_data \in ListingRequests :
        create_listing_response(auth, listing_data).status = 401
    /\ get_all_listings_response(auth).status = 401
    /\ \A listing_id \in Refs(listings) : initiate_chat_response(auth, listing_id).status = 401
    /\ get_user_conversations_response(auth).status = 401
    /\ \A chat_id \in Refs(rooms) :
        /\ get_chat_messages_response(auth, chat_id).status = 401
        /\ \A text \in Texts : send_chat_message_response(auth, chat_id, text).status = 401

C4_Unauthorized == \A auth \in AuthHeaders : FailsVerification(auth) => AllUnauthorized(auth)

C4_NothingChanged ==
    (store' # store) =>
        \A auth \in AuthHeaders :
            FailsVerification(auth) =>
                /\ \A listing_data \in ListingRequests : ~create_listing(auth, listing_data)
                /\ \A listing_id \in Refs(listings) : ~initiate_chat(auth, listing_id)
                /\ \A chat_id \in Refs(rooms), text \in Texts :
                    ~send_chat_message(auth, chat_id, text)

\* C4: every operation other than the health check, register and login,
\* called with no token or with a token that fails verification (bad
\* signature, or expired), answers 401 whatever its other inputs (before
\* any role, existence or participation check), and changes no stored
\* state.
C4_NoTokenUnauthorized == []C4_Unauthorized /\ [][C4_NothingChanged]_vars

\* The room's own buyer, with a token that has expired, and a token of
\* the listing's farmer signed with another key: each refused where the
\* same identity with a good token is served.
C4_Witness ==
    /\ Len(rooms) > 0
    /\ \E auth \in AuthHeaders :
        /\ auth # <<>>
        /\ auth[1].sig = JWT_SECRET_KEY
        /\ auth[1].payload.exp < UnixSeconds(now)
        /\ auth[1].payload.sub = rooms[1].buyer_email
        /\ get_chat_messages_response(auth, rooms[1].uuid).status = 401
        /\ get_chat_messages_response(TokenOf(rooms[1].buyer_email), rooms[1].uuid).status = 200
    /\ \E auth \in AuthHeaders :
        /\ auth # <<>>
        /\ auth[1].sig # JWT_SECRET_KEY
        /\ auth[1].payload.sub = rooms[1].farmer_email
        /\ get_user_conversations_response(auth).status = 401

\* The password a stored user registered with: register stores no password
\* of more than 72 bytes, so the digest holds all its bytes.
IsRegisteredPassword(user, password) ==
    Utf8Encode(password) = SubSeq(user.password_hash.digest, 3, Len(user.password_hash.digest))

\* C5: login answers 200 with a token if and only if the email belongs to
\* a stored user and the password is the one that user registered with;
\* in every other case it answers 401 and issues no token; the token
\* carries the stored user's email, role and public id.
C5_LoginIffRegisteredPassword ==
    \A form_data \in LoginRequests :
        LET r == login_for_access_token_response(form_data)
            user == find_user_in_db(form_data.email)
        IN  /\ r.status = 200 <=>
                    (user # <<>> /\ IsRegisteredPassword(user[1], form_data.password))
            /\ r.status # 200 => (r.status = 401 /\ r.out = <<>>)
            /\ r.status = 200 =>
                    /\ r.out[1].payload.sub = user[1].email
                    /\ r.out[1].payload.role = user[1].role
                    /\ r.out[1].payload.id = user[1].uuid

IssuedAndVerified == probe.fn = "verify_token" /\ probe.done

SameIdentity(res, data) ==
    /\ res # NoPayload
    /\ res[1].sub = data.sub
    /\ res[1].role = data.role
    /\ res[1].id = data.id

\* C6 as the specification states it: a token issued at time t verifies to
\* the same email, role and id at every time before t + 24 hours, and
\* fails verification at every time more than 24 hours after t.
C6_FailsAfterLifetime ==
    IssuedAndVerified =>
        /\ probe.arg.at < probe.arg.t + LifetimeTicks => SameIdentity(probe.res, probe.arg.data)
        /\ probe.arg.at > probe.arg.t + LifetimeTicks => probe.res = NoPayload

\* C6, amended: a token issued at time t verifies to the same email, role
\* and id at every time before t + 24 hours, and fails verification at
\* every time 24 hours and one second, or more, after t (exp and the clock
\* are compared in whole seconds).
C6_FailsOneSecondAfterLifetime ==
    IssuedAndVerified =>
        /\ probe.arg.at < probe.arg.t + LifetimeTicks => SameIdentity(probe.res, probe.arg.data)
        /\ probe.arg.at >= probe.arg.t + LifetimeTicks + TicksPerSecond =>
                probe.res = NoPayload

\* A token issued inside a second and verified a full second past its
\* lifetime: refused.
C6_Witness ==
    /\ IssuedAndVerified
    /\ probe.arg.t % TicksPerSecond # 0
    /\ probe.arg.at = probe.arg.t + LifetimeTicks + TicksPerSecond
    /\ probe.res = NoPayload

LacksField(payload) == payload.sub = <<>> \/ payload.role = "" \/ payload.id = 0

SignedUnexpiredLacking(auth) ==
    /\ auth # <<>>
    /\ auth[1].sig = JWT_SECRET_KEY
    /\ auth[1].payload.exp >= UnixSeconds(now)
    /\ LacksField(auth[1].payload)

\* C7 as the specification states it: a correctly signed, unexpired token
\* whose payload lacks any one of email, role or id is rejected by
\* verification (verify yields no identity for it), and the request that
\* carries it is answered 401.
C7_VerifyRejectsLacking ==
    \A auth \in AuthHeaders :
        SignedUnexpiredLacking(auth) =>
            /\ verify_token(auth[1], now) = NoPayload
            /\ AllUnauthorized(auth)

\* C7, amended: verify_token accepts a correctly signed, unexpired token
\* whose payload lacks any one of email, role or id, and returns its
\* payload; get_current_user refuses that payload, so that every request
\* that carries the token is answered 401.
C7_CurrentUserRejectsLacking ==
    \A auth \in AuthHeaders :
        SignedUnexpiredLacking(auth) =>
            /\ verify_token(auth[1], now) = <<auth[1].payload>>
            /\ get_current_user(auth, now).status = 401
            /\ get_current_user(auth, now).detail = "Invalid token payload"
            /\ AllUnauthorized(auth)

\* The farmer of a stored listing: served with the token of a login,
\* refused with a signed, unexpired token of the same email and role that
\* lacks the id.
C7_Witness ==
    /\ Len(listings) > 0
    /\ \E auth \in AuthHeaders :
        /\ SignedUnexpiredLacking(auth)
        /\ auth[1].payload.sub = listings[1].owner_email
        /\ auth[1].payload.id = 0
        /\ get_all_listings_response(auth).status = 401
        /\ get_all_listings_response(TokenOf(listings[1].owner_email)).status = 200

\* A later register call for a stored email, with other values in the
\* other fields: a valid, a weak, an empty and an oversized password.
ReRegisterRequests ==
    { UserCreate(n, users[i].email, p, r) :
          i \in 1..Len(users), n \in {"Eve"}, p \in {P2, PShort, <<>>, PLong, PLongWeak},
          r \in Roles }

C8_Conflict ==
    \A user_data \in ReRegisterRequests :
        /\ register_user_response(user_data).status = 409
        /\ register_user_response(user_data).out = <<>>

C8_NothingStored ==
    (users' # users \/ pending' # pending) =>
        \A user_data \in ReRegisterRequests : ~register_user(user_data)

\* C8: once an email is registered, every later register call with exactly
\* that email answers 409 and stores no user, whatever its full name, its
\* password (valid, weak or oversized) and its role.
C8_DuplicateEmailConflict == []C8_Conflict /\ [][C8_NothingStored]_vars

\* Two stored users, and an oversized password sent for the second one's
\* email: 409, not 422.
C8_Witness ==
    /\ Len(users) >= 2
    /\ register_user_response(UserCreate("Eve", users[2].email, PLongWeak, "admin")).status = 409

\* local@domain.tld: exactly one '@', a non-empty local part, a domain with
\* a dot that has text on both sides.
WellFormedEmail(email) ==
    LET ats == { i \in 1..Len(email) : email[i] = "@" } IN
    /\ Cardinality(ats) = 1
    /\ LET at == CHOOSE i \in ats : TRUE IN
        /\ at > 1
        /\ \E dot \in (at + 2)..(Len(email) - 1) : email[dot] = "."

\* The pattern of register_user accepts the well-formed emails and no
\* other, over every text of '@', '.' and a letter up to MaxEmailLen.
EmailRegexAgrees ==
    \A email \in SeqsUpTo({"a", "@", "."}, MaxEmailLen) : email_ok(email) <=> WellFormedEmail(email)

HasAny(password, chars) == \E i \in 1..Len(password) : password[i] \in chars

StrongPassword(password) ==
    /\ Len(password) >= 8
    /\ HasAny(password, UpperChars)
    /\ HasAny(password, LowerChars)
    /\ HasAny(password, DigitChars)

Unregistered(email) == \A i \in 1..Len(users) : users[i].email # email

\* C9 as the specification states it, for the call's own checks: with an
\* unregistered email, a password of more than 72 bytes is rejected, an
\* email not of the form local@domain.tld gets 422, a well-formed email
\* with a password that fails the strength policy gets 400, and otherwise
\* the call goes on to store its user.
C9_WeakPassword400 ==
    \A user_data \in RegisterRequests :
        Unregistered(user_data.email) =>
            LET r == register_user_response(user_data) IN
            /\ Utf8Bytes(user_data.password) > 72 => r.status \in {400, 422}
            /\ ~WellFormedEmail(user_data.email) => r.status = 422
            /\ (WellFormedEmail(user_data.email) /\ ~StrongPassword(user_data.password)) =>
                    r.status = 400
            /\ (WellFormedEmail(user_data.email) /\ StrongPassword(user_data.password)
                    /\ Utf8Bytes(user_data.password) <= 72) => r.status = 0

C9_Checks ==
    \A user_data \in RegisterRequests :
        Unregistered(user_data.email) =>
            LET r == register_user_response(user_data) IN
            /\ Utf8Bytes(user_data.password) > 72 => r.status = 422
            /\ ~WellFormedEmail(user_data.email) => r.status = 422
            /\ (WellFormedEmail(user_data.email) /\ Utf8Bytes(user_data.password) <= 72
                    /\ ~StrongPassword(user_data.password)) => r.status = 400
            /\ r.status # 0 => r.out = <<>>
            /\ (WellFormedEmail(user_data.email) /\ Utf8Bytes(user_data.password) <= 72
                    /\ StrongPassword(user_data.password)) =>
                    /\ r.status = 0
                    /\ r.out[1].email = user_data.email
                    /\ r.out[1].uuid \notin Uuids(users)

C9_Created ==
    \A row \in pending.users :
        Unregistered(row.email) =>
            register_commit_response(row) =
                Response(201, "User registered successfully",
                         <<[email |-> row.email, user_id |-> row.uuid]>>)

C9_OneUserStored ==
    /\ (users' # users \/ pending' # pending) =>
            \A user_data \in RegisterRequests :
                register_user_response(user_data).status # 0 => ~register_user(user_data)
    /\ \A row \in pending.users :
            (register_commit(row) /\ Unregistered(row.email)) =>
                /\ users' = Append(users, row)
                /\ UNCHANGED <<listings, rooms, messages>>

\* C9, amended: for an email that is not yet registered, register answers
\* 422 to a password of more than 72 bytes, 422 to an email not of the form
\* local@domain.tld (exactly one '@', non-empty local part, domain with a
\* dot that has text on both sides), and 400 to a well-formed email with a
\* password of at most 72 bytes that fails the strength policy; in each of
\* these cases no user is stored.  When every constraint holds, and the
\* email is still unregistered when the call commits, it answers 201 with
\* the email and a fresh user id and stores exactly one user.
C9_RegisterValidation ==
    [](EmailRegexAgrees /\ C9_Checks /\ C9_Created) /\ [][C9_OneUserStored]_vars

\* A user stored by a 201, while the next call's email is malformed and
\* its password weak (422), and another's password is weak and oversized
\* (422, not 400).
C9_Witness ==
    /\ Len(users) = 1
    /\ \E row \in pending.users : register_commit_response(row).status = 201
    /\ register_user_response(UserCreate("Dan", <<"u", "@", "x">>, PShort, "farmer")).status = 422
    /\ register_user_response(UserCreate("Dan", E3, PLongWeak, "farmer")).status = 422
    /\ register_user_response(UserCreate("Dan", E3, PNoUpper, "farmer")).status = 400

Judged == probe.fn = "validate_password_strength" /\ probe.done

\* C10: validate_password_strength(p) succeeds if and only if len(p) >= 8
\* and p holds an uppercase letter, a lowercase letter and a digit; when
\* len(p) < 8 (the empty password included) the reason is the length
\* message, even if classes are missing too; when len(p) >= 8 and a class
\* is missing the reason is the combined character-class message.
C10_PasswordStrength ==
    Judged =>
        /\ probe.res.ok <=> StrongPassword(probe.arg)
        /\ Len(probe.arg) < 8 =>
                probe.res.msg = "Password must be at least 8 characters"
        /\ (Len(probe.arg) >= 8 /\ ~StrongPassword(probe.arg)) =>
                probe.res.msg = "Password must include uppercase, lowercase and a digit"

\* Eight characters with an uppercase and a lowercase letter and no
\* digit: refused with the combined message.
C10_Witness ==
    /\ Judged
    /\ Len(probe.arg) = 8
    /\ HasAny(probe.arg, UpperChars) /\ HasAny(probe.arg, LowerChars)
    /\ ~HasAny(probe.arg, DigitChars)
    /\ ~probe.res.ok
    /\ probe.res.msg = MsgClasses

\* The callers of initiate_chat: the headers of the clients, and for every
\* stored listing a token that verifies and names the listing's owner as a
\* buyer.
C11_Callers ==
    AuthHeaders
    \cup { <<create_access_token([sub |-> listings[i].owner_email, role |-> "buyer",
                                  id |-> MaxRows + 1], now)>> : i \in 1..Len(listings) }

\* The refusal the claim names for an authenticated caller: 403, 404, 400,
\* or 0 when it names none.
C11_Expected(user, listing_id) ==
    IF user.role # "buyer" THEN 403
    ELSE IF \A i \in 1..Len(listings) : listings[i].uuid # listing_id THEN 404
    ELSE IF \E i \in 1..Len(listings) :
                listings[i].uuid = listing_id /\ listings[i].owner_email = user.email
        THEN 400
    ELSE 0

C11_Refused ==
    \A auth \in C11_Callers : \A listing_id \in Refs(listings) :
        LET cu == get_current_user(auth, now)
            r == initiate_chat_response(auth, listing_id)
        IN  (cu.status = 200 /\ C11_Expected(cu.user, listing_id) # 0) =>
                /\ r.status = C11_Expected(cu.user, listing_id)
                /\ r.out = <<>>

C11_NoRoomCreated ==
    (rooms' # rooms \/ pending' # pending) =>
        \A auth \in C11_Callers : \A listing_id \in Refs(listings) :
            LET cu == get_current_user(auth, now) IN
            (cu.status = 200 /\ C11_Expected(cu.user, listing_id) # 0) =>
                ~initiate_chat(auth, listing_id)

\* C11: initiate_chat answers an authenticated caller 403 when the caller's
\* role is not buyer, whether or not the listing exists; otherwise 404 when
\* the listing id matches no stored listing; otherwise 400 when the
\* listing's owner email equals the caller's email; in each of these cases
\* no chat room is created.
C11_InitiateRefusals == []C11_Refused /\ [][C11_NoRoomCreated]_vars

\* A stored listing: its farmer is answered 403 for it and for an unknown
\* listing id, a stored buyer 404 for the unknown id, and a buyer who
\* carries the owner's email 400.
C11_Witness ==
    /\ Len(listings) > 0
    /\ LET known == listings[1].uuid
           unknown == FreshId(Uuids(listings))
       IN  /\ \E auth \in AuthHeaders :
                /\ get_current_user(auth, now).status = 200
                /\ get_current_user(auth, now).user.role = "farmer"
                /\ initiate_chat_response(auth, known).status = 403
                /\ initiate_chat_response(auth, unknown).status = 403
           /\ \E auth \in AuthHeaders :
                /\ get_current_user(auth, now).user.role = "buyer"
                /\ initiate_chat_response(auth, unknown).status = 404
                /\ initiate_chat_response(auth, known).status = 0
           /\ \E auth \in C11_Callers :
                /\ get_current_user(auth, now).user.email = listings[1].owner_email
                /\ initiate_chat_response(auth, known).status = 400

\* The create-listing requests of the clients, and requests with zero to
\* four image URLs whose first image can or cannot be fetched.
C12_Requests ==
    ListingRequests
    \cup { ListingCreate(5, n, f, d) :
               n \in 0..(MinImages + 1), f \in BOOLEAN, d \in Detections \cup {NoBoxes} }

\* The refusal the claim names for an authenticated caller: 403, 422, 503,
\* or 0 when it names none.
C12_Expected(user, listing_data) ==
    IF user.role # "farmer" THEN 403
    ELSE IF listing_data.n_images < 3 THEN 422
    ELSE IF ~listing_data.fetch THEN 503
    ELSE 0

C12_Refused ==
    \A auth \in AuthHeaders : \A listing_data \in C12_Requests :
        LET cu == get_current_user(auth, now)
            r == create_listing_response(auth, listing_data)
        IN  (cu.status = 200 /\ C12_Expected(cu.user, listing_data) # 0) =>
                /\ r.status = C12_Expected(cu.user, listing_data)
                /\ r.out = <<>>

C12_NoListingStored ==
    (listings' # listings) =>
        \A auth \in AuthHeaders : \A listing_data \in C12_Requests :
            LET cu == get_current_user(auth, now) IN
            (cu.status = 200 /\ C12_Expected(cu.user, listing_data) # 0) =>
                ~create_listing(auth, listing_data)

\* C12: create_listing answers an authenticated caller 403 when the
\* caller's role is not farmer, whatever the number of image URLs;
\* otherwise 422 when fewer than 3 image URLs are given; otherwise 503 when
\* fetching the first image fails; in each of these cases no listing is
\* stored.
C12_CreateListingRefusals == []C12_Refused /\ [][C12_NoListingStored]_vars

\* A stored buyer is answered 403 with two images and with three that
\* cannot be fetched; a stored farmer 422 with two images that cannot be
\* fetched, and 503 with three.
C12_Witness ==
    /\ listings = <<>>
    /\ \E auth \in AuthHeaders :
        /\ get_current_user(auth, now).user.role = "buyer"
        /\ create_listing_response(auth, ListingCreate(5, 2, TRUE, NoBoxes)).status = 403
        /\ create_listing_response(auth, ListingCreate(5, 3, FALSE, NoBoxes)).status = 403
    /\ \E auth \in AuthHeaders :
        /\ get_current_user(auth, now).user.role = "farmer"
        /\ create_listing_response(auth, ListingCreate(5, 2, FALSE, NoBoxes)).status = 422
        /\ create_listing_response(auth, ListingCreate(5, 3, FALSE, NoBoxes)).status = 503
        /\ create_listing_response(auth, ListingCreate(5, 3, TRUE, NoBoxes)).status = 200

Graded == probe.fn = "analyze_produce_with_yolo" /\ probe.done

\* The grade the claim states for a list of confidences in hundredths:
\* ratio = d / n < 0.2 is 5 * d < n, avgConf = sum / (100 * n) > 0.7 is
\* sum > 70 * n, and likewise for 0.5.
C13_Grade(conf) ==
    LET n == Len(conf)
        below(c) == c < 50
        d == Len(SelectSeq(conf, below))
        sum == SumSeq(conf)
    IN  IF n = 0 THEN "A"
        ELSE IF 5 * d < n /\ sum > 70 * n THEN "A"
        ELSE IF 2 * d < n /\ sum > 50 * n THEN "B"
        ELSE "C"

C13_Band(grade) == IF grade = "A" THEN Band1 ELSE IF grade = "B" THEN Band2 ELSE Band3

\* C13: for a list of detection confidences with n its length, d the
\* number below 0.5, ratio = d / n and avgConf their mean, the grade is A
\* when n = 0; otherwise A when ratio < 0.2 and avgConf > 0.7; otherwise B
\* when ratio < 0.5 and avgConf > 0.5; otherwise C; the price band is the
\* first for A, the second for B, the third for C.  [0.9, 0.9, 0.9, 0.1] is
\* graded B and the empty list A.
C13_Grading ==
    /\ (Graded /\ probe.arg.ok) =>
            /\ probe.res.grade = C13_Grade(probe.arg.conf)
            /\ probe.res.price_range = C13_Band(probe.res.grade)
    /\ analyze_produce_with_yolo([ok |-> TRUE, conf |-> <<90, 90, 90, 10>>]).grade = "B"
    /\ analyze_produce_with_yolo([ok |-> TRUE, conf |-> <<>>]).grade = "A"

\* Five boxes, one of them below 0.5, mean above 0.7: the ratio is exactly
\* 0.2, and the grade is B.
C13_Witness ==
    /\ Graded
    /\ probe.arg.ok
    /\ Len(probe.arg.conf) = 5
    /\ Cardinality({i \in 1..5 : probe.arg.conf[i] < 50}) = 1
    /\ SumSeq(probe.arg.conf) > 70 * 5
    /\ probe.res.grade = "B"
    /\ probe.res.price_range = Band2

\* A detector that raises, or whose result is malformed, after any number
\* of boxes were read.
C14_Failures == { [ok |-> FALSE, conf |-> c] : c \in SeqsUpTo({10, 90}, 2) }

C14_Farmer(auth) ==
    get_current_user(auth, now).status = 200 /\ get_current_user(auth, now).user.role = "farmer"

C14_Fallback ==
    /\ \A det \in C14_Failures :
        /\ analyze_produce_with_yolo(det).grade = "B"
        /\ analyze_produce_with_yolo(det).price_range = Band2
    /\ \A auth \in AuthHeaders : \A det \in C14_Failures : \A n \in {3, 4} :
        C14_Farmer(auth) =>
            LET r == create_listing_response(auth, ListingCreate(5, n, TRUE, det)) IN
            /\ r.status = 200
            /\ r.out[1].ai_grade = "B"
            /\ r.out[1].ai_price_range = Band2
            /\ r.out[1].uuid \notin Uuids(listings)

C14_Persisted ==
    (listings' # listings) =>
        \A auth \in AuthHeaders : \A det \in C14_Failures :
            (C14_Farmer(auth) /\ create_listing(auth, ListingCreate(5, 3, TRUE, det))) =>
                /\ Len(listings') = Len(listings) + 1
                /\ SubSeq(listings', 1, Len(listings)) = listings
                /\ listings'[Len(listings')].ai_grade = "B"
                /\ listings'[Len(listings')].ai_price_range = Band2

\* C14: when detection on the first image fails (the detector raises, or
\* its result is malformed), the grading function raises nothing and
\* returns grade B with the second price band, and create_listing still
\* stores the listing, with grade B, and answers with success.
C14_DetectionFailureGradesB == []C14_Fallback /\ [][C14_Persisted]_vars

\* A stored listing that carries the fallback grading.
C14_Witness ==
    \E i \in 1..Len(listings) :
        /\ listings[i].ai_grade = "B"
        /\ listings[i].ai_price_range = Band2
        /\ listings[i].ai_analysis.text = "Automatic grading encountered an issue"

\* The listing's grade, price range and analysis are those the grading
\* function returns for a result of the detector.
C15_AsGraded(l) ==
    \E det \in Detections \cup {NoBoxes} :
        /\ l.ai_grade = analyze_produce_with_yolo(det).grade
        /\ l.ai_price_range = analyze_produce_with_yolo(det).price_range
        /\ l.ai_analysis = analyze_produce_with_yolo(det).analysis

C15_Graded ==
    \A i \in 1..Len(listings) :
        /\ listings[i].status = "active"
        /\ listings[i].ai_grade \in {"A", "B", "C"}
        /\ listings[i].ai_price_range \in {Band1, Band2, Band3}
        /\ listings[i].ai_analysis.text # ""
        /\ C15_AsGraded(listings[i])

C15_Unchanged ==
    /\ Len(listings') >= Len(listings)
    /\ \A i \in 1..Len(listings) : listings'[i] = listings[i]

\* C15: every stored listing has status active, a grade among A, B and C,
\* and a price range and an analysis text that are not null; they are what
\* the grading function returned when the listing was created, and they
\* never change afterwards.
C15_ListingGrading == []C15_Graded /\ [][C15_Unchanged]_vars

\* A listing graded C, with a chat room opened on it and a message sent
\* since.
C15_Witness ==
    /\ Len(listings) = 1
    /\ listings[1].ai_grade = "C"
    /\ listings[1].ai_price_range = Band3
    /\ \E i \in 1..Len(rooms) : rooms[i].listing_id = listings[1].uuid
    /\ Len(messages) > 0

Participant(auth, room) ==
    LET cu == get_current_user(auth, now) IN
    /\ cu.status = 200
    /\ (cu.user.email = room.farmer_email \/ cu.user.email = room.buyer_email)

\* The place of a stored message in the order of insertion.
C16_Inserted(m) == CHOOSE k \in 1..Len(messages) : messages[k] = m

C16_RoomMessagesInOrder ==
    \A auth \in AuthHeaders : \A i \in 1..Len(rooms) :
        Participant(auth, rooms[i]) =>
            LET r == get_chat_messages_response(auth, rooms[i].uuid)
                ofRoom == { k \in 1..Len(messages) : messages[k].chat_room_uuid = rooms[i].uuid }
            IN  /\ r.status = 200
                /\ Len(r.out) = Cardinality(ofRoom)
                /\ { r.out[a] : a \in 1..Len(r.out) } = { messages[k] : k \in ofRoom }
                /\ \A a, b \in 1..Len(r.out) :
                    a < b =>
                        \/ r.out[a].timestamp < r.out[b].timestamp
                        \/ /\ r.out[a].timestamp = r.out[b].timestamp
                           /\ C16_Inserted(r.out[a]) < C16_Inserted(r.out[b])

C17_ConversationsOfCaller ==
    \A auth \in AuthHeaders :
        LET cu == get_current_user(auth, now)
            r == get_user_conversations_response(auth)
            own == { i \in 1..Len(rooms) :
                        rooms[i].farmer_email = cu.user.email
                            \/ rooms[i].buyer_email = cu.user.email }
        IN  cu.status = 200 =>
                /\ r.status = 200
                /\ Len(r.out) = Cardinality(own)
                /\ { r.out[a] : a \in 1..Len(r.out) } = { rooms[i] : i \in own }

\* A room whose farmer and whose buyer each get it listed, and a third
\* stored user who gets an empty list.
C17_Witness ==
    /\ Len(rooms) = 1
    /\ get_user_conversations_response(TokenOf(rooms[1].farmer_email)).out = <<rooms[1]>>
    /\ get_user_conversations_response(TokenOf(rooms[1].buyer_email)).out = <<rooms[1]>>
    /\ \E auth \in AuthHeaders :
        /\ get_current_user(auth, now).status = 200
        /\ get_user_conversations_response(auth).out = <<>>

C18_UniqueEmails ==
    \A i, j \in 1..Len(users) : users[i].email = users[j].email => i = j

C18_LoserRolledBack ==
    (pending' # pending) =>
        \A row \in pending.users :
            (register_commit(row) /\ ~Unregistered(row.email)) =>
                /\ register_commit_response(row).status = 500
                /\ users' = users

\* C18: no two stored users have the same email (compared exactly, case
\* included).  This holds for concurrent register calls with one email that
\* both pass the lookup: at most one of them commits, and the other ends
\* with a storage error and its write rolled back.
C18_EmailsUnique == []C18_UniqueEmails /\ [][C18_LoserRolledBack]_vars

\* A register call that passed the lookup and waits to commit, while
\* another call with the same email has committed: its commit answers 500.
C18_Witness ==
    \E row \in pending.users :
        /\ \E i \in 1..Len(users) : users[i].email = row.email /\ users[i].uuid # row.uuid
        /\ register_commit_response(row).status = 500

\* C19: every stored user's role is farmer or buyer (and never changes):
\* here, that no stored user has another role.
C19_RoleFarmerOrBuyer ==
    \A i \in 1..Len(users) : users[i].role \in {"farmer", "buyer"}

\* C20: every stored listing has a quantity greater than 0.
C20_QuantityPositive ==
    \A i \in 1..Len(listings) : listings[i].quantity > 0

C21_SamePair(a, b) == a.listing_id = b.listing_id /\ a.buyer_email = b.buyer_email

\* While a request for a pair is between its lookup and its insert, and no
\* room of the pair is stored, a second request for the pair completes the
\* lookup, finds no room and goes on to insert.
C21_BothPassLookup ==
    \A row \in pending.rooms :
        (\A i \in 1..Len(rooms) : ~C21_SamePair(rooms[i], row)) =>
            LET r == initiate_chat_response(TokenOf(row.buyer_email), row.listing_id) IN
            /\ r.status = 0
            /\ C21_SamePair(r.out[1], row)

\* The insert of each of them succeeds, whatever rooms are stored by then:
\* the request answers 200 with its own room.
C21_BothInsert ==
    (rooms' # rooms) =>
        \A row \in pending.rooms :
            initiate_commit(row) =>
                /\ initiate_commit_response(row) = Response(200, "", <<row>>)
                /\ rooms' = Append(rooms, row)

\* C21: two initiate-chat requests for the same (listing, buyer) that run
\* concurrently can both complete the existing-room lookup before either
\* inserts, and then both insert: a state with two rooms for the pair is
\* reachable, and in that execution neither request fails (each returns a
\* room).
C21_RaceInsertsTwice == []C21_BothPassLookup /\ [][C21_BothInsert]_vars

\* Two stored rooms of one listing and one buyer.
C21_Witness ==
    \E i, j \in 1..Len(rooms) :
        /\ i < j
        /\ C21_SamePair(rooms[i], rooms[j])
        /\ rooms[i].uuid # rooms[j].uuid

\* The stored users, listings, chat rooms and messages.
tables == <<users, listings, rooms, messages>>

C22_ErrorStatuses == {400, 401, 403, 404, 409, 422, 500, 503}

\* No step that changes a table is a call that ends with an error
\* response, for any request the clients send.
C22_ErrorsChangeNothing ==
    (tables' # tables) =>
        /\ \A user_data \in RegisterRequests :
            register_user_response(user_data).status \in C22_ErrorStatuses =>
                ~register_user(user_data)
        /\ \A row \in pending.users :
            register_commit_response(row).status \in C22_ErrorStatuses => ~register_commit(row)
        /\ \A form_data \in LoginRequests :
            login_for_access_token_response(form_data).status \in C22_ErrorStatuses =>
                ~login_for_access_token(form_data)
        /\ \A auth \in AuthHeaders :
            /\ \A configured \in BOOLEAN :
                request_cloudinary_signature_response(auth, configured).status
                        \in C22_ErrorStatuses =>
                    ~request_cloudinary_signature(auth, configured)
            /\ \A query \in {<<>>, <<"h">>} :
                ask_ai_assistant_response(auth, query).status \in C22_ErrorStatuses =>
                    ~ask_ai_assistant(auth, query)
            /\ \A listing_data \in ListingRequests :
                create_listing_response(auth, listing_data).status \in C22_ErrorStatuses =>
                    ~create_listing(auth, listing_data)
            /\ get_all_listings_response(auth).status \in C22_ErrorStatuses =>
                    ~get_all_listings(auth)
            /\ \A listing_id \in Refs(listings) :
                initiate_chat_response(auth, listing_id).status \in C22_ErrorStatuses =>
                    ~initiate_chat(auth, listing_id)
            /\ get_user_conversations_response(auth).status \in C22_ErrorStatuses =>
                    ~get_user_conversations(auth)
            /\ \A chat_id \in Refs(rooms) :
                /\ get_chat_messages_response(auth, chat_id).status \in C22_ErrorStatuses =>
                        ~get_chat_messages(auth, chat_id)
                /\ \A text \in Texts :
                    send_chat_message_response(auth, chat_id, text).status
                            \in C22_ErrorStatuses =>
                        ~send_chat_message(auth, chat_id, text)

\* An error response carries no row, and a request that is refused before
\* its write queues none.
C22_ErrorsBuildNothing ==
    /\ \A user_data \in RegisterRequests :
        register_user_response(user_data).status \in C22_ErrorStatuses =>
            register_user_response(user_data).out = <<>>
    /\ \A row \in pending.users :
        register_commit_response(row).status \in C22_ErrorStatuses =>
            register_commit_response(row).out = <<>>
    /\ \A auth \in AuthHeaders :
        /\ \A listing_data \in ListingRequests :
            create_listing_response(auth, listing_data).status \in C22_ErrorStatuses =>
                create_listing_response(auth, listing_data).out = <<>>
        /\ \A listing_id \in Refs(listings) :
            initiate_chat_response(auth, listing_id).status \in C22_ErrorStatuses =>
                initiate_chat_response(auth, listing_id).out = <<>>
        /\ \A chat_id \in Refs(rooms) : \A text \in Texts :
            send_chat_message_response(auth, chat_id, text).status \in C22_ErrorStatuses =>
                send_chat_message_response(auth, chat_id, text).out = <<>>

\* C22: every operation that ends with an error response (400, 401, 403,
\* 404, 409, 422, 503, or 500 after a failed commit) leaves the stored
\* users, listings, chat rooms and messages exactly as they were before it
\* started: the checks come before the first write, and a failed commit is
\* rolled back.
C22_ErrorsAreAtomic == []C22_ErrorsBuildNothing /\ [][C22_ErrorsChangeNothing]_vars

\* Stored users and a listing, a register call whose commit is about to
\* fail with 500, and a buyer who is answered 404 for an unknown listing.
C22_Witness ==
    /\ Len(users) >= 2
    /\ Len(listings) = 1
    /\ \E row \in pending.users : register_commit_response(row).status = 500
    /\ \E auth \in AuthHeaders :
        initiate_chat_response(auth, FreshId(Uuids(listings))).status = 404

C23_OfParticipant(m) ==
    \E i \in 1..Len(rooms) :
        /\ rooms[i].uuid = m.chat_room_uuid
        /\ m.sender_email \in {rooms[i].farmer_email, rooms[i].buyer_email}

\* Every stored message, and every message on its way to the table,
\* belongs to a stored room and was sent by one of the room's two sides.
C23_MessagesOfParticipants ==
    /\ \A k \in 1..Len(messages) : C23_OfParticipant(messages[k])
    /\ \A m \in pending.msgs : C23_OfParticipant(m)

\* A participant's send builds one message of the caller, the addressed
\* room and the given text.
C23_SendBuildsMessage ==
    \A auth \in AuthHeaders : \A i \in 1..Len(rooms) : \A text \in Texts :
        Participant(auth, rooms[i]) =>
            LET r == send_chat_message_response(auth, rooms[i].uuid, text) IN
            /\ r.status = 0
            /\ Len(r.out) = 1
            /\ r.out[1].sender_email = get_current_user(auth, now).user.email
            /\ r.out[1].chat_room_uuid = rooms[i].uuid
            /\ r.out[1].message_text = text
            /\ r.out[1].uuid \notin Uuids(messages)

\* Its commit stores exactly that message and nothing else.
C23_SendStoresOne ==
    (messages' # messages \/ pending' # pending) =>
        \A m \in pending.msgs :
            send_commit(m) =>
                /\ messages' = Append(messages, m)
                /\ send_commit_response(m) = Response(200, "", <<m>>)
                /\ UNCHANGED <<users, listings, rooms>>

\* C23: in every reachable state each stored message belongs to an
\* existing chat room and its sender email is that room's farmer_email or
\* buyer_email; a send_chat_message by a participant stores exactly one
\* message, whose sender is the caller, whose room is the addressed room
\* and whose text is the given text.
C23_MessagesBelongToRooms ==
    [](C23_MessagesOfParticipants /\ C23_SendBuildsMessage) /\ [][C23_SendStoresOne]_vars

\* A room with a message of its farmer and a message of its buyer.
C23_Witness ==
    \E i \in 1..Len(rooms) :
        /\ \E k \in 1..Len(messages) :
            /\ messages[k].chat_room_uuid = rooms[i].uuid
            /\ messages[k].sender_email = rooms[i].farmer_email
        /\ \E k \in 1..Len(messages) :
            /\ messages[k].chat_room_uuid = rooms[i].uuid
            /\ messages[k].sender_email = rooms[i].buyer_email

C24_Extends(after, before) ==
    /\ Len(after) >= Len(before)
    /\ SubSeq(after, 1, Len(before)) = before

\* No step deletes or changes a stored row.
C24_OnlyGrows ==
    /\ C24_Extends(users', users)
    /\ C24_Extends(listings', listings)
    /\ C24_Extends(rooms', rooms)
    /\ C24_Extends(messages', messages)

\* What each successful operation adds, and that the reading operations
\* and the first halves of the writing ones add nothing.
C24_Effects ==
    (tables' # tables) =>
        /\ \A row \in pending.users :
            (register_commit(row) /\ register_commit_response(row).status = 201) =>
                /\ users' = Append(users, row)
                /\ UNCHANGED <<listings, rooms, messages>>
        /\ \A auth \in AuthHeaders : \A listing_data \in ListingRequests :
            (create_listing(auth, listing_data)
                    /\ create_listing_response(auth, listing_data).status = 200) =>
                /\ listings' = Append(listings, create_listing_response(auth, listing_data).out[1])
                /\ UNCHANGED <<users, rooms, messages>>
        /\ \A row \in pending.rooms :
            initiate_commit(row) =>
                /\ rooms' = Append(rooms, row)
                /\ UNCHANGED <<users, listings, messages>>
        /\ \A row \in pending.msgs :
            send_commit(row) =>
                /\ messages' = Append(messages, row)
                /\ UNCHANGED <<users, listings, rooms>>
        /\ \A user_data \in RegisterRequests : ~register_user(user_data)
        /\ \A form_data \in LoginRequests : ~login_for_access_token(form_data)
        /\ \A auth \in AuthHeaders :
            /\ ~get_all_listings(auth)
            /\ ~get_user_conversations(auth)
            /\ \A listing_id \in Refs(listings) : ~initiate_chat(auth, listing_id)
            /\ \A chat_id \in Refs(rooms) :
                /\ ~get_chat_messages(auth, chat_id)
                /\ \A text \in Texts : ~send_chat_message(auth, chat_id, text)

\* C24: stored data only grows: no operation deletes or changes an
\* existing user, listing, chat room or message.  A successful register
\* adds exactly one user and nothing else, a successful create_listing
\* exactly one listing and nothing else, a successful initiate_chat at most
\* one chat room and nothing else, a successful send_chat_message exactly
\* one message and nothing else; login, get_all_listings,
\* get_user_conversations and get_chat_messages change nothing.
C24_StoredDataOnlyGrows == [][C24_OnlyGrows /\ C24_Effects]_vars

\* Every table holds a row, and the messages table two.
C24_Witness ==
    /\ Len(users) >= 2
    /\ Len(listings) >= 1
    /\ Len(rooms) >= 1
    /\ Len(messages) >= 2

\* The headers that carry a token login issued.  (Every other header of
\* AuthHeaders is answered 401, so the reachable states are those reached
\* with tokens from login alone.)
C25_LoginHeaders == { <<tok>> : tok \in LoginTokens }

C25_Registered(email, role) ==
    \E i \in 1..Len(users) : users[i].email = email /\ users[i].role = role

C25_OnlyLoginAuthenticates ==
    \A auth \in AuthHeaders \ C25_LoginHeaders : get_current_user(auth, now).status = 401

\* C25: in every state reachable through the API with tokens obtained only
\* from login, the owner of every stored listing is a registered user whose
\* role is farmer and the buyer of every stored chat room is a registered
\* user whose role is buyer; hence every room has farmer_email different
\* from buyer_email, and initiate_chat never answers 400 (chat on one's own
\* listing).
C25_RolesOfOwnersAndBuyers ==
    /\ C25_OnlyLoginAuthenticates
    /\ \A i \in 1..Len(listings) : C25_Registered(listings[i].owner_email, "farmer")
    /\ \A i \in 1..Len(rooms) :
        /\ C25_Registered(rooms[i].buyer_email, "buyer")
        /\ rooms[i].farmer_email # rooms[i].buyer_email
    /\ \A row \in pending.rooms :
        /\ C25_Registered(row.buyer_email, "buyer")
        /\ row.farmer_email # row.buyer_email
    /\ \A auth \in C25_LoginHeaders : \A listing_id \in Refs(listings) :
        initiate_chat_response(auth, listing_id).status # 400

\* A farmer's listing with a buyer's room on it, while the farmer, with a
\* token from login, asks to chat on the listing: 403, not 400.
C25_Witness ==
    /\ Len(listings) = 1
    /\ \E i \in 1..Len(rooms) :
        /\ rooms[i].listing_id = listings[1].uuid
        /\ C25_Registered(rooms[i].farmer_email, "farmer")
        /\ C25_Registered(rooms[i].buyer_email, "buyer")
    /\ TokenOf(listings[1].owner_email) \in C25_LoginHeaders
    /\ initiate_chat_response(TokenOf(listings[1].owner_email), listings[1].uuid).status = 403

C26_CopyOfListing(room) ==
    \E i \in 1..Len(listings) :
        /\ listings[i].uuid = room.listing_id
        /\ listings[i].owner_email = room.farmer_email
        /\ listings[i].title = room.listing_title

\* C26: in every reachable state each stored chat room's listing_id
\* identifies an existing listing, and the room's farmer_email and
\* listing_title equal that listing's owner_email and title: the copy
\* taken when the room was created never diverges from the listing.  (The
\* same holds of a room on its way to the table.)
C26_RoomCopiesListing ==
    /\ \A i \in 1..Len(rooms) : C26_CopyOfListing(rooms[i])
    /\ \A row \in pending.rooms : C26_CopyOfListing(row)

\* Two rooms on one listing, with a message sent since.
C26_Witness ==
    /\ Len(rooms) = 2
    /\ rooms[1].uuid # rooms[2].uuid
    /\ C26_CopyOfListing(rooms[1])
    /\ C26_CopyOfListing(rooms[2])
    /\ Len(messages) > 0

\* What get_chat_messages returns for a stored room to the room's buyer,
\* who logs in for the call.
C27_Listing(chat_id) ==
    get_chat_messages_response(TokenOf(find_chat_room_in_db(chat_id)[1].buyer_email),
                               chat_id).out

C27_IsPrefix(earlier, later) ==
    /\ Len(earlier) <= Len(later)
    /\ SubSeq(later, 1, Len(earlier)) = earlier

\* C27: for a fixed room and any interleaving of send_chat_message and
\* get_chat_messages requests on it, a later get_chat_messages result
\* extends an earlier one: the result before a step is a prefix of the
\* result after it.
C27_ListingsExtend ==
    [][(messages' # messages) =>
            \A chat_id \in Uuids(rooms) :
                C27_IsPrefix(C27_Listing(chat_id), (C27_Listing(chat_id))')]_vars

=============================================================================
